---- MODULE Spec2Model ----
(***************************************************************************)
(* Model of FConnection (Source/SignalR/Private/Connection.cpp): the       *)
(* SignalR-Core client handshake.  Connect() posts a negotiate request,    *)
(* OnNegotiateResponse validates the answer and StartWebSocket creates the *)
(* WebSocket and relays its four signals to the public events.             *)
(*                                                                         *)
(* The HTTP module, the WebSockets module and the server are the           *)
(* environment.  Every call the Connection makes on them is appended to a  *)
(* log (httpRequests, createCalls, wsCalls, events), so that what the code *)
(* did can be read off the state.                                          *)
(*                                                                         *)
(* Spec is the whole life of a Connection; SpecNegotiate is the            *)
(* negotiation alone, over every negotiate response of Responses.          *)
(***************************************************************************)
EXTENDS Integers, Sequences, FiniteSets, TLC

VARIABLES
    Headers,        \* FConnection::Headers, fixed by the constructor
    ConnectionId,   \* FConnection::ConnectionId ("" until assigned)
    Connection,     \* FConnection::Connection: 0 = invalid pointer, else socket id
    sockets,        \* the IWebSocket objects CreateWebSocket has returned, by id
    pending,        \* negotiate requests in flight (ProcessRequest called, no completion yet)
    response,       \* <<>> or <<r>>: the completed response the delegate is being invoked with
    handled,        \* <<>> or <<r>>: the response the delegate has just returned from,
                    \* until the HTTP module releases the finished request
    outcome,        \* where the last OnNegotiateResponse call returned
    parseCalls,     \* number of FJsonSerializer::Deserialize calls
    httpRequests,   \* log of the requests handed to ProcessRequest
    createCalls,    \* log of the CreateWebSocket calls
    wsCalls,        \* log of the calls made on IWebSocket objects
    raised,         \* log of the signals the sockets have raised
    events,         \* log of the broadcasts on the four public events
    lastLog,        \* the last UE_LOG message written
    connects,       \* number of Connect() calls so far
    ops             \* number of Send()/Close() calls so far

vars == <<Headers, ConnectionId, Connection, sockets, pending, response, handled, outcome,
          parseCalls, httpRequests, createCalls, wsCalls, raised, events, lastLog,
          connects, ops>>

-----------------------------------------------------------------------------
(* Bounds of the model *)

MaxConnects == 2        \* Connect() calls per behaviour
MaxOps == 1             \* Send()/Close() calls per behaviour
MaxSignals == 3         \* signals raised by the sockets per behaviour
MaxTransports == 1      \* entries of an availableTransports array

-----------------------------------------------------------------------------
(* Values *)

Host == "example.com"

HeaderMaps == { {}, {<<"Authorization", "Bearer t0">>} }

Messages == {"m1", "m2"}
SendData == {"d1"}
ErrStrings == {"refused"}
ClosePayloads == { [code |-> 1000, text |-> "normal", clean |-> TRUE],
                   [code |-> 1006, text |-> "abnormal", clean |-> FALSE] }
CloseArgs == { [code |-> 1000, text |-> "bye"] }

\* One entry of availableTransports.  type is the EJson type of the array
\* element; transport and transferFormats are the fields of an object entry.
TransportEntries ==
    { [type |-> "Object", transport |-> "WebSockets",  transferFormats |-> <<"Text">>],
      [type |-> "Object", transport |-> "WebSockets",  transferFormats |-> <<"Binary">>],
      [type |-> "Object", transport |-> "LongPolling", transferFormats |-> <<"Text">>],
      [type |-> "Object", transport |-> "WebSockets",  transferFormats |-> <<"Binary", "Text">>],
      [type |-> "String", transport |-> "",            transferFormats |-> <<>>] }

RECURSIVE SeqsUpTo(_, _)
SeqsUpTo(S, n) ==
    IF n = 0 THEN { <<>> }
    ELSE LET shorter == SeqsUpTo(S, n - 1)
         IN  shorter \cup { Append(s, e) : s \in { t \in shorter : Len(t) = n - 1 }, e \in S }

FieldNames == {"error", "ProtocolVersion", "url", "availableTransports",
               "connectionId", "connectionToken"}

\* The EJson type each field of the response object may have; "None" = no such field.
FieldTypes(f) ==
    CASE f = "url" -> {"None", "String", "Number"}
      [] f = "availableTransports" -> {"None", "Array", "String"}
      [] OTHER -> {"None", "String"}

JsonObjects ==
    { [types |-> t, transports |-> a] :
        t \in { u \in [FieldNames -> {"None", "String", "Number", "Array"}] :
                    \A f \in FieldNames : u[f] \in FieldTypes(f) },
        a \in SeqsUpTo(TransportEntries, MaxTransports) }

\* A completed negotiate response: status code and body.  parses = FALSE is a
\* body that FJsonSerializer::Deserialize rejects.
Bodies ==
    { [parses |-> TRUE, types |-> o.types, transports |-> o.transports] :
        o \in { p \in JsonObjects :
                  p.types["availableTransports"] # "Array" => p.transports = <<>> } }
    \cup
    { [parses |-> FALSE, types |-> [f \in FieldNames |-> "None"], transports |-> <<>>] }

Responses ==
    { [status |-> s, parses |-> b.parses, types |-> b.types, transports |-> b.transports] :
        s \in {200, 500}, b \in Bodies }

ConnectionIdValue == "abc123"
ConnectionTokenValue == "tok456"

NoFields == [f \in FieldNames |-> "None"]

WebSocketsText ==
    [type |-> "Object", transport |-> "WebSockets", transferFormats |-> <<"Text">>]

LongPollingText ==
    [type |-> "Object", transport |-> "LongPolling", transferFormats |-> <<"Text">>]

Response(status, parses, types, transports) ==
    [status |-> status, parses |-> parses, types |-> types, transports |-> transports]

\* The null FHttpResponsePtr a request that failed to connect completes with
\* (bConnectedSuccessfully = false).  0 is not the status of any response.
NoResponse == Response(0, FALSE, NoFields, <<>>)

\* How a process stops on a null dereference: a failed check(), or a fault.
CrashOutcomes == {"check failed", "access violation"}

\* The negotiate responses of the whole-life specification: one for each way
\* OnNegotiateResponse can return, and one for each way ConnectionId can be set.
ScenarioResponses ==
    { Response(500, TRUE, NoFields, <<>>),
      Response(200, FALSE, NoFields, <<>>),
      Response(200, TRUE, [NoFields EXCEPT !["error"] = "String"], <<>>),
      Response(200, TRUE, [NoFields EXCEPT !["ProtocolVersion"] = "String"], <<>>),
      Response(200, TRUE, [NoFields EXCEPT !["url"] = "String"], <<>>),
      Response(200, TRUE, [NoFields EXCEPT !["availableTransports"] = "Array"],
               <<LongPollingText>>),
      Response(200, TRUE, [NoFields EXCEPT !["availableTransports"] = "Array",
                                           !["connectionId"] = "String"],
               <<WebSocketsText>>),
      Response(200, TRUE, NoFields, <<>>),
      Response(200, TRUE, [NoFields EXCEPT !["connectionToken"] = "String"], <<>>),
      Response(200, TRUE, [NoFields EXCEPT !["connectionId"] = "String",
                                           !["connectionToken"] = "String"], <<>>) }

-----------------------------------------------------------------------------
(* FJsonObject queries *)

HasField(JsonObject, FieldName) == JsonObject.types[FieldName] # "None"

HasTypedField(JsonObject, FieldName, JsonType) == JsonObject.types[FieldName] = JsonType

GetStringField(JsonObject, FieldName) ==
    CASE FieldName = "connectionId" -> ConnectionIdValue
      [] FieldName = "connectionToken" -> ConnectionTokenValue
      [] OTHER -> ""

\* FJsonSerializer::Deserialize(JsonReader, JsonObject) && JsonObject.IsValid()
Deserialize(InResponse) == InResponse.parses

-----------------------------------------------------------------------------
(* OnNegotiateResponse: the scan of availableTransports *)

\* The inner loop: bIsCompatible after visiting transferFormats[1..n].
RECURSIVE ScanTransferFormats(_, _, _)
ScanTransferFormats(formats, n, bIsCompatible) ==
    IF n = 0 THEN bIsCompatible
    ELSE LET before == ScanTransferFormats(formats, n - 1, bIsCompatible)
         IN  IF formats[n] = "Text" THEN TRUE ELSE before

\* Faulty variant: the transport name of the entry is not compared with "WebSockets".
ScanTransportData_AnyTransport(TransportData, bIsCompatible) ==
    IF TransportData.type = "Object"
    THEN ScanTransferFormats(TransportData.transferFormats,
                             Len(TransportData.transferFormats), bIsCompatible)
    ELSE bIsCompatible

\* The body of the outer loop for one TransportData.
ScanTransportData(TransportData, bIsCompatible) ==
    IF TransportData.type = "Object"
       /\ TransportData.transport = "WebSockets"
    THEN ScanTransferFormats(TransportData.transferFormats,
                             Len(TransportData.transferFormats), bIsCompatible)
    ELSE bIsCompatible

\* The outer loop: bIsCompatible after visiting availableTransports[1..n],
\* starting from bIsCompatible = false.
RECURSIVE ScanAvailableTransports(_, _)
ScanAvailableTransports(transports, n) ==
    IF n = 0 THEN FALSE
    ELSE ScanTransportData(transports[n], ScanAvailableTransports(transports, n - 1))

bIsCompatible(JsonObject) ==
    ScanAvailableTransports(JsonObject.transports, Len(JsonObject.transports))

-----------------------------------------------------------------------------
(* OnNegotiateResponse: the branch the call takes *)

\* Faulty variant: ProtocolVersion is looked at before error.
NegotiateBranch_LegacyBeforeError(InResponse) ==
    IF InResponse.status # 200 THEN "status"
    ELSE IF ~Deserialize(InResponse) THEN "parse"
    ELSE IF HasField(InResponse, "ProtocolVersion") THEN "legacy"
    ELSE IF HasField(InResponse, "error") THEN "error"
    ELSE IF HasTypedField(InResponse, "url", "String") THEN "redirect"
    ELSE IF HasTypedField(InResponse, "availableTransports", "Array")
            /\ ~bIsCompatible(InResponse) THEN "incompatible"
    ELSE "start"

\* Faulty variant: url is looked at before ProtocolVersion.
NegotiateBranch_RedirectBeforeLegacy(InResponse) ==
    IF InResponse.status # 200 THEN "status"
    ELSE IF ~Deserialize(InResponse) THEN "parse"
    ELSE IF HasField(InResponse, "error") THEN "error"
    ELSE IF HasTypedField(InResponse, "url", "String") THEN "redirect"
    ELSE IF HasField(InResponse, "ProtocolVersion") THEN "legacy"
    ELSE IF HasTypedField(InResponse, "availableTransports", "Array")
            /\ ~bIsCompatible(InResponse) THEN "incompatible"
    ELSE "start"

\* Faulty variant: the response code is not looked at.
NegotiateBranch_NoStatusCheck(InResponse) ==
    IF ~Deserialize(InResponse) THEN "parse"
    ELSE IF HasField(InResponse, "error") THEN "error"
    ELSE IF HasField(InResponse, "ProtocolVersion") THEN "legacy"
    ELSE IF HasTypedField(InResponse, "url", "String") THEN "redirect"
    ELSE IF HasTypedField(InResponse, "availableTransports", "Array")
            /\ ~bIsCompatible(InResponse) THEN "incompatible"
    ELSE "start"

\* Faulty variant: ProtocolVersion is not looked at.
NegotiateBranch_NoLegacyCheck(InResponse) ==
    IF InResponse.status # 200 THEN "status"
    ELSE IF ~Deserialize(InResponse) THEN "parse"
    ELSE IF HasField(InResponse, "error") THEN "error"
    ELSE IF HasTypedField(InResponse, "url", "String") THEN "redirect"
    ELSE IF HasTypedField(InResponse, "availableTransports", "Array")
            /\ ~bIsCompatible(InResponse) THEN "incompatible"
    ELSE "start"

\* Faulty variant: the url branch falls through instead of returning.
NegotiateBranch_RedirectFallsThrough(InResponse) ==
    IF InResponse.status # 200 THEN "status"
    ELSE IF ~Deserialize(InResponse) THEN "parse"
    ELSE IF HasField(InResponse, "error") THEN "error"
    ELSE IF HasField(InResponse, "ProtocolVersion") THEN "legacy"
    ELSE IF HasTypedField(InResponse, "availableTransports", "Array")
            /\ ~bIsCompatible(InResponse) THEN "incompatible"
    ELSE "start"

\* "status", "parse", "error", "legacy", "redirect", "incompatible" are the
\* places where the call returns without reaching StartWebSocket(); "start"
\* is the fall-through to StartWebSocket().
NegotiateBranch(InResponse) ==
    IF InResponse.status # 200 THEN "status"
    ELSE IF ~Deserialize(InResponse) THEN "parse"
    ELSE IF HasField(InResponse, "error") THEN "error"
    ELSE IF HasField(InResponse, "ProtocolVersion") THEN "legacy"
    ELSE IF HasTypedField(InResponse, "url", "String") THEN "redirect"
    ELSE IF HasTypedField(InResponse, "availableTransports", "Array")
            /\ ~bIsCompatible(InResponse) THEN "incompatible"
    ELSE "start"

\* The UE_LOG message each branch writes (old = the log is left as it was).
NegotiateLog(branch, old) ==
    CASE branch = "status" -> "Negotiate failed with status code"
      [] branch = "parse" -> "Cannot parse negotiate response"
      [] branch = "legacy" -> "Detected a connection attempt to an ASP.NET SignalR Server"
      [] branch = "incompatible" -> "The server does not support WebSockets"
      [] OTHER -> old

\* Faulty variant: connectionToken is read first, connectionId last.
NegotiatedConnectionId_IdLast(JsonObject, old) ==
    LET afterToken == IF HasTypedField(JsonObject, "connectionToken", "String")
                      THEN GetStringField(JsonObject, "connectionToken") ELSE old
    IN  IF HasTypedField(JsonObject, "connectionId", "String")
        THEN GetStringField(JsonObject, "connectionId") ELSE afterToken

\* Faulty variant: connectionToken is read only when connectionId is missing.
NegotiatedConnectionId_TokenAsFallback(JsonObject, old) ==
    IF HasTypedField(JsonObject, "connectionId", "String")
    THEN GetStringField(JsonObject, "connectionId")
    ELSE IF HasTypedField(JsonObject, "connectionToken", "String")
         THEN GetStringField(JsonObject, "connectionToken") ELSE old

\* ConnectionId after the two assignments that precede StartWebSocket().
NegotiatedConnectionId(JsonObject, old) ==
    LET afterId == IF HasTypedField(JsonObject, "connectionId", "String")
                   THEN GetStringField(JsonObject, "connectionId") ELSE old
    IN  IF HasTypedField(JsonObject, "connectionToken", "String")
        THEN GetStringField(JsonObject, "connectionToken") ELSE afterId

-----------------------------------------------------------------------------
(* Calls on the collaborators *)

\* The request Negotiate() builds: verb and URL are set, no header is.
NegotiateRequest ==
    [verb |-> "POST",
     url |-> <<"http://", Host, "/negotiate?negotiateVersion=1">>,
     headers |-> {}]

\* The arguments of FWebSocketsModule::CreateWebSocket.
CreateWebSocketArgs(InHeaders) ==
    [url |-> <<"ws://", Host>>, protocol |-> "", headers |-> InHeaders]

WsCall(s, op, code, text) == [sock |-> s, op |-> op, code |-> code, text |-> text]

\* Faulty variant: Connect() is called before the handlers are added.
StartWebSocketCalls_ConnectFirst(s) ==
    << WsCall(s, "Connect", 0, ""),
       WsCall(s, "OnConnected.AddLambda", 0, ""),
       WsCall(s, "OnConnectionError.AddLambda", 0, ""),
       WsCall(s, "OnClosed.AddLambda", 0, ""),
       WsCall(s, "OnMessage.AddLambda", 0, "") >>

\* The calls StartWebSocket() makes on a valid socket s, in program order.
StartWebSocketCalls(s) ==
    << WsCall(s, "OnConnected.AddLambda", 0, ""),
       WsCall(s, "OnConnectionError.AddLambda", 0, ""),
       WsCall(s, "OnClosed.AddLambda", 0, ""),
       WsCall(s, "OnMessage.AddLambda", 0, ""),
       WsCall(s, "Connect", 0, "") >>

\* The signals of socket s that have a handler after the calls in `calls`.
Subscribed(calls) ==
    { c.op : c \in { calls[i] : i \in 1..Len(calls) } } \ {"Connect"}

\* IWebSocket::IsConnected() of socket s.
SocketIsConnected(s) == sockets[s].state = "connected"

\* Faulty variant: only the handle is tested.
IsConnected_HandleOnly == Connection # 0

\* FConnection::IsConnected()
IsConnected == Connection # 0 /\ SocketIsConnected(Connection)

-----------------------------------------------------------------------------
(* The lambdas StartWebSocket() registers: what each one broadcasts *)

Event(kind, code, text, clean) == [kind |-> kind, code |-> code, text |-> text, clean |-> clean]

OnConnectedLambda == Event("connected", 0, "", FALSE)

OnConnectionErrorLambda(ErrString) == Event("connectionError", 0, ErrString, FALSE)

\* Faulty variant: bWasClean is not passed on.
OnClosedLambda_DropsClean(StatusCode, Reason, bWasClean) ==
    Event("closed", StatusCode, Reason, FALSE)

OnClosedLambda(StatusCode, Reason, bWasClean) == Event("closed", StatusCode, Reason, bWasClean)

OnMessageLambda(MessageString) == Event("message", 0, MessageString, FALSE)

Signal(s, kind, code, text, clean) ==
    [sock |-> s, kind |-> kind, code |-> code, text |-> text, clean |-> clean]

-----------------------------------------------------------------------------
(* Initial state: a constructed FConnection *)

Init ==
    /\ Headers \in HeaderMaps
    /\ ConnectionId = ""
    /\ Connection = 0
    /\ sockets = <<>>
    /\ pending = 0
    /\ response = <<>>
    /\ handled = <<>>
    /\ outcome = "none"
    /\ parseCalls = 0
    /\ httpRequests = <<>>
    /\ createCalls = <<>>
    /\ wsCalls = <<>>
    /\ raised = <<>>
    /\ events = <<>>
    /\ lastLog = ""
    /\ connects = 0
    /\ ops = 0

\* The completion delegate of a request runs in the HTTP tick that completes
\* it: from the completion of a request until the HTTP module has released
\* it, only the delegate and the release run.
Idle == response = <<>> /\ handled = <<>>

\* The process has not stopped.
Running == outcome \notin CrashOutcomes

-----------------------------------------------------------------------------
(* Operations of FConnection *)

\* Connect() -> Negotiate()
Connect ==
    /\ Running
    /\ Idle
    /\ connects < MaxConnects
    /\ connects' = connects + 1
    /\ httpRequests' = Append(httpRequests, NegotiateRequest)
    /\ pending' = pending + 1
    /\ UNCHANGED <<Headers, handled, ConnectionId, Connection, sockets, response, outcome,
                   parseCalls, createCalls, wsCalls, raised, events, lastLog, ops>>

\* The server answers one of the requests in flight; the HTTP module is about
\* to invoke the delegate bound by Negotiate().
HttpComplete ==
    /\ Running
    /\ Idle
    /\ pending > 0
    /\ \E r \in Responses \cup {NoResponse} : response' = <<r>>
    /\ pending' = pending - 1
    /\ UNCHANGED <<Headers, handled, ConnectionId, Connection, sockets, outcome, parseCalls,
                   httpRequests, createCalls, wsCalls, raised, events, lastLog,
                   connects, ops>>

\* Faulty variant: the socket is used without testing that it is valid.
StartWebSocket_NoValidityTest(bValid) ==
    /\ createCalls' = Append(createCalls, CreateWebSocketArgs(Headers))
    /\ IF bValid
       THEN LET s == Len(sockets) + 1
            IN  /\ Connection' = s
                /\ sockets' = Append(sockets,
                        [state |-> "connecting", handlers |-> Subscribed(StartWebSocketCalls(s))])
                /\ wsCalls' = wsCalls \o StartWebSocketCalls(s)
                /\ UNCHANGED lastLog
       ELSE /\ Connection' = 0
            /\ wsCalls' = wsCalls \o StartWebSocketCalls(0)
            /\ UNCHANGED <<sockets, lastLog>>

\* StartWebSocket(); bValid is whether CreateWebSocket returned a usable socket.
StartWebSocket(bValid) ==
    /\ createCalls' = Append(createCalls, CreateWebSocketArgs(Headers))
    /\ IF bValid
       THEN LET s == Len(sockets) + 1
            IN  /\ Connection' = s
                /\ sockets' = Append(sockets,
                        [state |-> "connecting", handlers |-> Subscribed(StartWebSocketCalls(s))])
                /\ wsCalls' = wsCalls \o StartWebSocketCalls(s)
                /\ UNCHANGED lastLog
       ELSE /\ Connection' = 0
            /\ lastLog' = "Cannot start websocket."
            /\ UNCHANGED <<sockets, wsCalls>>

\* InResponse->GetResponseCode() at the top of OnNegotiateResponse when
\* InResponse is null: the check in TSharedPtr::operator-> fails where checks
\* are compiled in, and the virtual call through the null pointer faults
\* where they are not.  Either way the process stops there.
NullResponseDereferenced ==
    /\ outcome' \in CrashOutcomes
    /\ UNCHANGED <<ConnectionId, Connection, sockets, createCalls, wsCalls, lastLog, parseCalls>>

\* Faulty variant: the error branch falls through to StartWebSocket().
NegotiateResponseHandled_ErrorStarts(InResponse) ==
    IF InResponse = NoResponse
    THEN NullResponseDereferenced
    ELSE LET branch == NegotiateBranch(InResponse)
         IN  /\ outcome' = branch
             /\ parseCalls' = IF branch = "status" THEN parseCalls ELSE parseCalls + 1
             /\ IF branch \in {"start", "error"}
                THEN /\ ConnectionId' = NegotiatedConnectionId(InResponse, ConnectionId)
                     /\ \E bValid \in BOOLEAN : StartWebSocket(bValid)
                ELSE /\ lastLog' = NegotiateLog(branch, lastLog)
                     /\ UNCHANGED <<ConnectionId, Connection, sockets, createCalls, wsCalls>>

\* Faulty variant: ConnectionId is assigned as soon as the body has parsed.
NegotiateResponseHandled_IdBeforeChecks(InResponse) ==
    IF InResponse = NoResponse
    THEN NullResponseDereferenced
    ELSE LET branch == NegotiateBranch(InResponse)
         IN  /\ outcome' = branch
             /\ parseCalls' = IF branch = "status" THEN parseCalls ELSE parseCalls + 1
             /\ IF branch = "start"
                THEN /\ ConnectionId' = NegotiatedConnectionId(InResponse, ConnectionId)
                     /\ \E bValid \in BOOLEAN : StartWebSocket(bValid)
                ELSE /\ lastLog' = NegotiateLog(branch, lastLog)
                     /\ ConnectionId' = IF branch \in {"status", "parse"} THEN ConnectionId
                                        ELSE NegotiatedConnectionId(InResponse, ConnectionId)
                     /\ UNCHANGED <<Connection, sockets, createCalls, wsCalls>>

\* The body of OnNegotiateResponse(InRequest, InResponse, bConnectedSuccessfully).
NegotiateResponseHandled(InResponse) ==
    IF InResponse = NoResponse
    THEN NullResponseDereferenced
    ELSE LET branch == NegotiateBranch(InResponse)
         IN  /\ outcome' = branch
             /\ parseCalls' = IF branch = "status" THEN parseCalls ELSE parseCalls + 1
             /\ IF branch = "start"
                THEN /\ ConnectionId' = NegotiatedConnectionId(InResponse, ConnectionId)
                     /\ \E bValid \in BOOLEAN : StartWebSocket(bValid)
                ELSE /\ lastLog' = NegotiateLog(branch, lastLog)
                     /\ UNCHANGED <<ConnectionId, Connection, sockets, createCalls, wsCalls>>

\* The delegate runs on the response HttpComplete has put in `response`.
OnNegotiateResponse ==
    /\ response # <<>>
    /\ NegotiateResponseHandled(response[1])
    /\ response' = <<>>
    /\ handled' = response
    /\ UNCHANGED <<Headers, pending, httpRequests, raised, events, connects, ops>>

\* The delegate has returned; the HTTP module releases the finished request
\* and its response.
HttpRequestReleased ==
    /\ Running
    /\ handled # <<>>
    /\ handled' = <<>>
    /\ UNCHANGED <<Headers, ConnectionId, Connection, sockets, pending, response, outcome,
                   parseCalls, httpRequests, createCalls, wsCalls, raised, events, lastLog,
                   connects, ops>>

\* A request in flight completes and the delegate runs, in one step.
NegotiateCompletes ==
    /\ Running
    /\ pending > 0
    /\ pending' = pending - 1
    /\ \E InResponse \in ScenarioResponses \cup {NoResponse} :
            NegotiateResponseHandled(InResponse)
    /\ UNCHANGED <<Headers, handled, response, httpRequests, raised, events, connects, ops>>

\* Faulty variant: the handle is not tested.
SendCalls_Unguarded(Data) == Append(wsCalls, WsCall(Connection, "Send", 0, Data))

\* What Send(Data) does to the call log.
SendCalls(Data) ==
    IF Connection # 0 THEN Append(wsCalls, WsCall(Connection, "Send", 0, Data)) ELSE wsCalls

\* What Close(Code, Reason) does to the call log.
CloseCalls(Code, Reason) ==
    IF Connection # 0 THEN Append(wsCalls, WsCall(Connection, "Close", Code, Reason)) ELSE wsCalls

\* Send(Data)
Send ==
    /\ Running
    /\ ops < MaxOps
    /\ ops' = ops + 1
    /\ \E Data \in SendData : wsCalls' = SendCalls(Data)
    /\ lastLog' = IF Connection # 0 THEN lastLog
                  ELSE "Cannot send data to non connected websocket."
    /\ UNCHANGED <<Headers, handled, ConnectionId, Connection, sockets, pending, response, outcome,
                   parseCalls, httpRequests, createCalls, raised, events, connects>>

\* Close(Code, Reason)
Close ==
    /\ Running
    /\ ops < MaxOps
    /\ ops' = ops + 1
    /\ \E a \in CloseArgs : wsCalls' = CloseCalls(a.code, a.text)
    /\ lastLog' = IF Connection # 0 THEN lastLog
                  ELSE "Cannot close non connected websocket."
    /\ UNCHANGED <<Headers, handled, ConnectionId, Connection, sockets, pending, response, outcome,
                   parseCalls, httpRequests, createCalls, raised, events, connects>>

-----------------------------------------------------------------------------
(* The sockets raise their signals; the registered lambda runs *)

CanRaise(s) == Running /\ s \in 1..Len(sockets) /\ Len(raised) < MaxSignals

\* Faulty variant: the handle is reset when a socket reports closed.
Raise_DropsHandle(s, newState, sig, handler, event, log) ==
    /\ sockets' = [sockets EXCEPT ![s].state = newState]
    /\ raised' = Append(raised, sig)
    /\ events' = IF handler \in sockets[s].handlers THEN Append(events, event) ELSE events
    /\ lastLog' = log
    /\ Connection' = IF newState = "closed" THEN 0 ELSE Connection
    /\ UNCHANGED <<Headers, handled, ConnectionId, pending, response, outcome,
                   parseCalls, httpRequests, createCalls, wsCalls, connects, ops>>

Raise(s, newState, sig, handler, event, log) ==
    /\ sockets' = [sockets EXCEPT ![s].state = newState]
    /\ raised' = Append(raised, sig)
    /\ events' = IF handler \in sockets[s].handlers THEN Append(events, event) ELSE events
    /\ lastLog' = log
    /\ UNCHANGED <<Headers, handled, ConnectionId, Connection, pending, response, outcome,
                   parseCalls, httpRequests, createCalls, wsCalls, connects, ops>>

WsConnected ==
    \E s \in 1..Len(sockets) :
        /\ CanRaise(s)
        /\ sockets[s].state = "connecting"
        /\ Raise(s, "connected", Signal(s, "connected", 0, "", FALSE),
                 "OnConnected.AddLambda", OnConnectedLambda, lastLog)

WsConnectionError ==
    \E s \in 1..Len(sockets), ErrString \in ErrStrings :
        /\ CanRaise(s)
        /\ sockets[s].state = "connecting"
        /\ Raise(s, "error", Signal(s, "connectionError", 0, ErrString, FALSE),
                 "OnConnectionError.AddLambda", OnConnectionErrorLambda(ErrString),
                 "Websocket err")

WsClosed ==
    \E s \in 1..Len(sockets), p \in ClosePayloads :
        /\ CanRaise(s)
        /\ sockets[s].state \in {"connecting", "connected", "error"}
        /\ Raise(s, "closed", Signal(s, "closed", p.code, p.text, p.clean),
                 "OnClosed.AddLambda", OnClosedLambda(p.code, p.text, p.clean), lastLog)

WsMessage ==
    \E s \in 1..Len(sockets), MessageString \in Messages :
        /\ CanRaise(s)
        /\ sockets[s].state = "connected"
        /\ Raise(s, "connected", Signal(s, "message", 0, MessageString, FALSE),
                 "OnMessage.AddLambda", OnMessageLambda(MessageString), lastLog)

-----------------------------------------------------------------------------

(* The whole life of a Connection.  The negotiate responses are those of   *)
(* ScenarioResponses, and a completion and its delegate are one step.       *)
Next ==
    \/ Connect
    \/ NegotiateCompletes
    \/ Send
    \/ Close
    \/ WsConnected
    \/ WsConnectionError
    \/ WsClosed
    \/ WsMessage

Spec == Init /\ [][Next]_vars

(* The negotiation alone, over every response of Responses.  The completed  *)
(* response is held in `response` from its arrival to the delegate, and in  *)
(* `handled` from the return of the delegate to the release of the request, *)
(* so that a property can relate the response to what the delegate does     *)
(* with it.                                                                 *)
NextNegotiate ==
    \/ Connect
    \/ HttpComplete
    \/ OnNegotiateResponse
    \/ HttpRequestReleased

SpecNegotiate == Init /\ [][NextNegotiate]_vars

TypeOK ==
    /\ Headers \in HeaderMaps
    /\ ConnectionId \in {"", ConnectionIdValue, ConnectionTokenValue}
    /\ Connection \in 0..Len(sockets)
    /\ Len(sockets) <= MaxConnects
    /\ pending \in 0..MaxConnects
    /\ Len(response) <= 1
    /\ parseCalls \in 0..MaxConnects
    /\ Len(raised) <= MaxSignals

-----------------------------------------------------------------------------
(* Vocabulary of the properties *)

\* The step is a call of the completion delegate.
Handling == response # <<>>

\* The response the delegate is called with.
Handled == response[1]

\* r carries the field, with whatever type.
Carries(r, f) == r.types[f] # "None"

\* r is a status-200 response whose body parses to a JSON object.
WellFormed(r) == r.status = 200 /\ r.parses

\* Some entry of the availableTransports list of r is an object with
\* transport "WebSockets" and "Text" among its transferFormats.
OffersWebSocketsText(r) ==
    \E i \in 1..Len(r.transports) :
        /\ r.transports[i].type = "Object"
        /\ r.transports[i].transport = "WebSockets"
        /\ \E j \in 1..Len(r.transports[i].transferFormats) :
              r.transports[i].transferFormats[j] = "Text"

\* Status 200, parseable, no error, no ProtocolVersion, no string url.
PassesFieldChecks(r) ==
    /\ WellFormed(r)
    /\ ~Carries(r, "error")
    /\ ~Carries(r, "ProtocolVersion")
    /\ r.types["url"] # "String"

\* ... and availableTransports absent or offering WebSockets with Text.
PassesAsStated(r) ==
    /\ PassesFieldChecks(r)
    /\ (~Carries(r, "availableTransports") \/ OffersWebSocketsText(r))

\* ... and availableTransports absent, not an array, or offering WebSockets with Text.
PassesValidation(r) ==
    /\ PassesFieldChecks(r)
    /\ (r.types["availableTransports"] # "Array" \/ OffersWebSocketsText(r))

NoTransportTouched ==
    /\ createCalls' = createCalls
    /\ sockets' = sockets
    /\ wsCalls' = wsCalls
    /\ Connection' = Connection

\* The calls the step has added to the log of calls on sockets.
NewWsCalls == SubSeq(wsCalls', Len(wsCalls) + 1, Len(wsCalls'))

SignalAdders == {"OnConnected.AddLambda", "OnConnectionError.AddLambda",
                 "OnClosed.AddLambda", "OnMessage.AddLambda"}

-----------------------------------------------------------------------------
(* C1 *)

\* C1 as stated: CreateWebSocket is called only in a step that handles a
\* negotiate response with status 200, a parseable body, no error, no
\* ProtocolVersion, no string url and availableTransports absent or offering
\* WebSockets with Text; a Connect() step calls neither CreateWebSocket nor
\* anything on a socket.
C1_AsStated ==
    /\ createCalls = <<>> /\ sockets = <<>>
    /\ [][ /\ (createCalls' # createCalls \/ Len(sockets') # Len(sockets))
                => Handling /\ PassesAsStated(Handled)
           /\ connects' # connects => NoTransportTouched ]_vars

\* C1 amended: CreateWebSocket is called only in a step that handles a
\* negotiate response with status 200, a parseable body, no error, no
\* ProtocolVersion, no string url and availableTransports absent, not an
\* array, or offering WebSockets with Text; a Connect() step calls neither
\* CreateWebSocket nor anything on a socket.
C1_TransportOnlyAfterValidation ==
    /\ createCalls = <<>> /\ sockets = <<>>
    /\ [][ /\ (createCalls' # createCalls \/ Len(sockets') # Len(sockets))
                => Handling /\ PassesValidation(Handled)
           /\ connects' # connects => NoTransportTouched ]_vars

C1_Witness ==
    /\ outcome = "start"
    /\ Len(httpRequests) = 1
    /\ Len(createCalls) = 1
    /\ Len(sockets) = 1

-----------------------------------------------------------------------------
(* C2 *)

\* The step calls CreateWebSocket exactly once, with ws://{host}, an empty
\* sub-protocol and the configured header map.
CreatesOneTransport ==
    createCalls' = Append(createCalls,
                          [url |-> <<"ws://", Host>>, protocol |-> "", headers |-> Headers])

\* The step adds a handler to each of the four signals of the new socket and
\* then calls its Connect().
SubscribesThenConnects ==
    /\ Len(sockets') = Len(sockets) + 1
    /\ Connection' = Len(sockets')
    /\ Len(NewWsCalls) = 5
    /\ \A i \in 1..5 : NewWsCalls[i].sock = Connection'
    /\ { NewWsCalls[i].op : i \in 1..4 } = SignalAdders
    /\ NewWsCalls[5].op = "Connect"
    /\ sockets'[Connection'].handlers = SignalAdders

\* C2 as stated: handling a response that passes every check creates one
\* transport for ws://{host} with an empty sub-protocol and the configured
\* headers, subscribes to its four signals and then calls its connect.
C2_AsStated ==
    [][ Handling => LET r == Handled IN
            PassesAsStated(r) => CreatesOneTransport /\ SubscribesThenConnects ]_vars

\* C2 amended: handling such a response calls CreateWebSocket exactly once
\* with ws://{host}, an empty sub-protocol and the configured headers; when
\* the call returns a usable socket the Connection subscribes to its four
\* signals and then calls its connect, and when it returns none the
\* Connection makes no call on any socket and holds no handle.
C2_ValidResponseStartsTransport ==
    [][ Handling => LET r == Handled IN
            PassesAsStated(r) =>
                /\ CreatesOneTransport
                /\ \/ SubscribesThenConnects
                   \/ Connection' = 0 /\ sockets' = sockets /\ wsCalls' = wsCalls ]_vars

C2_Witness ==
    /\ outcome = "start"
    /\ Connection = 1
    /\ createCalls = << [url |-> <<"ws://", Host>>, protocol |-> "", headers |-> Headers] >>
    /\ Headers # {}
    /\ Len(wsCalls) = 5
    /\ wsCalls[5].op = "Connect"
    /\ sockets[1].state = "connecting"

-----------------------------------------------------------------------------
(* C3 *)

\* C3: handling a response whose status is not 200 calls neither
\* CreateWebSocket nor the JSON parser, whatever the body is.
C3_Non200NeverStarts ==
    [][ Handling => LET r == Handled IN
            r.status # 200 => NoTransportTouched /\ parseCalls' = parseCalls ]_vars

C3_Witness ==
    /\ outcome = "status"
    /\ lastLog = "Negotiate failed with status code"
    /\ parseCalls = 0
    /\ createCalls = <<>>
    /\ connects = 1

-----------------------------------------------------------------------------
(* C4 *)

\* C4: handling a status-200, parseable response that carries ProtocolVersion
\* never creates a transport, whatever other fields it carries.
C4_LegacyNeverStarts ==
    [][ Handling => LET r == Handled IN
            WellFormed(r) /\ Carries(r, "ProtocolVersion") => NoTransportTouched ]_vars

C4_Witness ==
    /\ outcome = "legacy"
    /\ lastLog = "Detected a connection attempt to an ASP.NET SignalR Server"
    /\ createCalls = <<>>
    /\ Connection = 0

-----------------------------------------------------------------------------
(* C5 *)

\* C5 as stated: handling a response that carries availableTransports with no
\* entry offering WebSockets with Text creates no transport; a response that
\* omits availableTransports and passes the other checks starts the transport.
C5_AsStated ==
    [][ Handling => LET r == Handled IN
            /\ Carries(r, "availableTransports") /\ ~OffersWebSocketsText(r)
                  => NoTransportTouched
            /\ ~Carries(r, "availableTransports") /\ PassesFieldChecks(r)
                  => Len(createCalls') = Len(createCalls) + 1 ]_vars

\* C5 amended: handling a response whose availableTransports is an array with
\* no entry offering WebSockets with Text (the empty array included) creates
\* no transport; for a response whose availableTransports is absent or is not
\* an array the check is skipped: if it passes the other checks, the
\* transport is started.
C5_IncompatibleNeverStarts ==
    [][ Handling => LET r == Handled IN
            /\ r.types["availableTransports"] = "Array" /\ ~OffersWebSocketsText(r)
                  => NoTransportTouched
            /\ r.types["availableTransports"] # "Array" /\ PassesFieldChecks(r)
                  => Len(createCalls') = Len(createCalls) + 1 ]_vars

C5_Witness ==
    /\ outcome = "incompatible"
    /\ lastLog = "The server does not support WebSockets"
    /\ createCalls = <<>>
    /\ Connection = 0

-----------------------------------------------------------------------------
(* C6 *)

\* Socket s has raised its connected signal and has raised no closed or
\* connection-error signal since.
ReportsConnected(s) ==
    \E i \in 1..Len(raised) :
        /\ raised[i].sock = s
        /\ raised[i].kind = "connected"
        /\ \A j \in (i + 1)..Len(raised) :
              raised[j].sock = s => raised[j].kind \notin {"closed", "connectionError"}

\* C6: IsConnected() is true exactly when the Connection holds a transport
\* handle and that transport has reported connected and not closed since; so
\* it is false while there is no handle (not started, negotiating, aborted),
\* while the transport is still connecting, and once the transport has closed.
C6_IsConnectedIffTransportConnected ==
    /\ IsConnected <=> (Connection # 0 /\ ReportsConnected(Connection))
    /\ Connection = 0 => ~IsConnected
    /\ createCalls = <<>> => ~IsConnected

\* The transport was created, reported connected, then raised
\* closed(1000, "normal", true); IsConnected() is false again.
C6_Witness ==
    /\ Connection = 1
    /\ Len(raised) = 2
    /\ raised[1] = Signal(1, "connected", 0, "", FALSE)
    /\ raised[2] = Signal(1, "closed", 1000, "normal", TRUE)
    /\ ~IsConnected

-----------------------------------------------------------------------------
(* C7 *)

\* C7: a Send() or Close() step taken while the Connection holds no transport
\* handle makes no call on the HTTP module, the WebSockets module or any
\* socket, broadcasts nothing and leaves every field of the Connection as it was.
C7_NoHandleNoEffect ==
    [][ ops' # ops /\ Connection = 0 =>
            /\ wsCalls' = wsCalls
            /\ createCalls' = createCalls
            /\ httpRequests' = httpRequests
            /\ events' = events
            /\ UNCHANGED <<Headers, ConnectionId, Connection, sockets, pending>> ]_vars

\* Send() was called while the negotiate request was still in flight.
C7_Witness ==
    /\ ops = 1
    /\ Connection = 0
    /\ pending = 1
    /\ lastLog = "Cannot send data to non connected websocket."
    /\ wsCalls = <<>>

-----------------------------------------------------------------------------
(* C8 *)

\* C8: a Send() or Close() step makes a call on the transport if and only if
\* IsConnected() holds; with a handle whose transport is not connected the
\* step makes no call.
C8_AsStated ==
    [][ ops' # ops =>
            IF IsConnected THEN Len(wsCalls') = Len(wsCalls) + 1 ELSE wsCalls' = wsCalls ]_vars

-----------------------------------------------------------------------------
(* C9 *)

\* C9: the broadcasts on the public events are, in order and one for one, the
\* signals the transports have raised, each with the same kind and payload.
C9_TransparentRelay ==
    /\ Len(events) = Len(raised)
    /\ \A i \in 1..Len(raised) :
          /\ events[i].kind = raised[i].kind
          /\ events[i].code = raised[i].code
          /\ events[i].text = raised[i].text
          /\ events[i].clean = raised[i].clean

\* connected, then message "m2", then closed(1000, "normal", true).
C9_Witness ==
    /\ Len(events) = 3
    /\ events[1].kind = "connected"
    /\ events[2].kind = "message" /\ events[2].text = "m2"
    /\ events[3].kind = "closed" /\ events[3].code = 1000
    /\ events[3].text = "normal" /\ events[3].clean

-----------------------------------------------------------------------------
(* C10 *)

\* C10: every Connect() call has issued exactly one request, a POST to
\* http://{host}/negotiate?negotiateVersion=1, carrying every entry of the
\* configured header map.
C10_AsStated ==
    /\ Len(httpRequests) = connects
    /\ \A i \in 1..Len(httpRequests) :
          /\ httpRequests[i].verb = "POST"
          /\ httpRequests[i].url = <<"http://", Host, "/negotiate?negotiateVersion=1">>
          /\ Headers \subseteq httpRequests[i].headers

-----------------------------------------------------------------------------
(* More vocabulary *)

\* The delegate has just returned from a call with a response object.
Returned == handled # <<>> /\ handled[1] # NoResponse

\* The response that call was given.
Given == handled[1]

-----------------------------------------------------------------------------
(* C11 *)

\* C11 as stated: whenever the Connection holds a transport handle, that
\* transport is connected; the handle is absent while not started,
\* negotiating, failed, still connecting, and after closed.
C11_AsStated == Connection # 0 => sockets[Connection].state = "connected"

\* C11 amended: the transport handle is absent until StartWebSocket has
\* constructed a socket (not started, negotiating, negotiation aborted,
\* construction failed); only StartWebSocket changes it, to the socket it has
\* just constructed or to none when the construction fails, so the handle
\* stays present while the socket is still connecting and after it has
\* reported closed.
C11_HandleSetOnlyByStartWebSocket ==
    /\ Connection = 0
    /\ [][ /\ Connection' # Connection => createCalls' # createCalls
           /\ createCalls' # createCalls =>
                 Connection' = IF Len(sockets') > Len(sockets) THEN Len(sockets') ELSE 0 ]_vars

\* The socket has connected and closed, and the handle is still held.
C11_Witness ==
    /\ Connection = 1
    /\ sockets[1].state = "closed"
    /\ Len(raised) = 2
    /\ raised[1].kind = "connected"

-----------------------------------------------------------------------------
(* C12 *)

\* C12 as stated: after a validated response with a string connectionId,
\* ConnectionId is that connectionId; the connectionToken is stored when the
\* response has a string connectionToken and no string connectionId.
C12_AsStated ==
    Returned /\ PassesValidation(Given) =>
        IF Given.types["connectionId"] = "String" THEN ConnectionId = ConnectionIdValue
        ELSE Given.types["connectionToken"] = "String" => ConnectionId = ConnectionTokenValue

\* C12 amended: after a validated response with a string connectionToken,
\* ConnectionId is that connectionToken; the connectionId is stored only when
\* the response has a string connectionId and no string connectionToken.
C12_TokenBeforeId ==
    Returned /\ PassesValidation(Given) =>
        IF Given.types["connectionToken"] = "String" THEN ConnectionId = ConnectionTokenValue
        ELSE Given.types["connectionId"] = "String" => ConnectionId = ConnectionIdValue

\* A response with connectionId alone has stored the connectionId.
C12_Witness ==
    /\ Returned
    /\ PassesValidation(Given)
    /\ Given.types["connectionId"] = "String"
    /\ Given.types["connectionToken"] = "None"
    /\ ConnectionId = ConnectionIdValue

-----------------------------------------------------------------------------
(* C13 *)

\* C13: after a validated response that has both a string connectionId and a
\* string connectionToken, ConnectionId is the connectionToken.
C13_BothFieldsTokenWins ==
    ( /\ Returned
      /\ PassesValidation(Given)
      /\ Given.types["connectionId"] = "String"
      /\ Given.types["connectionToken"] = "String" )
    => ConnectionId = ConnectionTokenValue

C13_Witness ==
    /\ Returned
    /\ outcome = "start"
    /\ Given.types["connectionId"] = "String"
    /\ Given.types["connectionToken"] = "String"
    /\ ConnectionId = ConnectionTokenValue

-----------------------------------------------------------------------------
(* C14 *)

\* C14: at most one negotiate request is ever in flight, and a Connect()
\* after the first issues no further request.
C14_AsStated == pending <= 1 /\ Len(httpRequests) <= 1

-----------------------------------------------------------------------------
(* C15 *)

PriorityOrder == <<"status", "parse", "error", "legacy", "redirect", "incompatible">>

\* Response r fails the check named c.
FailsCheck(r, c) ==
    CASE c = "status" -> r.status # 200
      [] c = "parse" -> ~r.parses
      [] c = "error" -> Carries(r, "error")
      [] c = "legacy" -> Carries(r, "ProtocolVersion")
      [] c = "redirect" -> r.types["url"] = "String"
      [] c = "incompatible" ->
            r.types["availableTransports"] = "Array" /\ ~OffersWebSocketsText(r)

\* The first check of PriorityOrder that r fails, "start" if it fails none.
FirstFailed(r) ==
    LET failed == { i \in 1..Len(PriorityOrder) : FailsCheck(r, PriorityOrder[i]) }
    IN  IF failed = {} THEN "start"
        ELSE PriorityOrder[CHOOSE i \in failed : \A j \in failed : i <= j]

\* C15: the delegate returns at the first check, in the order status, parse,
\* error, ProtocolVersion, url, availableTransports, that the response fails,
\* and reaches StartWebSocket() only if it fails none.
C15_FirstFailedCheckDecides == Returned => outcome = FirstFailed(Given)

\* A response with both error and ProtocolVersion has taken the error branch.
C15_Witness ==
    /\ Returned
    /\ WellFormed(Given)
    /\ Carries(Given, "error")
    /\ Carries(Given, "ProtocolVersion")
    /\ Given.types["url"] = "String"
    /\ outcome = "error"

-----------------------------------------------------------------------------
(* C16 *)

LegacyDiagnostic == "Detected a connection attempt to an ASP.NET SignalR Server"

\* C16 as stated: a status-200, parseable response that carries
\* ProtocolVersion always ends in the legacy-server branch, with its
\* diagnostic, whatever else it carries.
C16_AsStated ==
    Returned /\ WellFormed(Given) /\ Carries(Given, "ProtocolVersion")
        => outcome = "legacy" /\ lastLog = LegacyDiagnostic

\* C16 amended: the ProtocolVersion check runs after the error check and
\* before any other field is consulted: a status-200, parseable response that
\* carries ProtocolVersion and no error ends in the legacy-server branch with
\* its diagnostic, whatever else it carries; one that also carries error ends
\* in the error branch.
C16_LegacyAfterErrorOnly ==
    Returned /\ WellFormed(Given) /\ Carries(Given, "ProtocolVersion")
        => IF Carries(Given, "error")
           THEN outcome = "error"
           ELSE outcome = "legacy" /\ lastLog = LegacyDiagnostic

\* A response with ProtocolVersion and a string url, and no error.
C16_Witness ==
    /\ Returned
    /\ WellFormed(Given)
    /\ Carries(Given, "ProtocolVersion")
    /\ ~Carries(Given, "error")
    /\ Given.types["url"] = "String"
    /\ outcome = "legacy"
    /\ lastLog = LegacyDiagnostic

-----------------------------------------------------------------------------
(* C17 *)

Aborts == {"status", "parse", "error", "legacy", "redirect", "incompatible"}

\* C17: a delegate call that returns on an abort path issues no request,
\* creates no transport, calls nothing on a socket and broadcasts nothing;
\* and while the aborted attempt is the only one made, there is still just
\* the one request, no transport and no broadcast.
C17_AbortIsTerminalAndSilent ==
    /\ [](connects = 1 /\ outcome \in Aborts =>
            /\ Len(httpRequests) = 1
            /\ pending = 0
            /\ createCalls = <<>>
            /\ sockets = <<>>
            /\ Connection = 0
            /\ events = <<>>)
    /\ [][ pending' < pending /\ outcome' \in Aborts =>
              UNCHANGED <<httpRequests, createCalls, sockets, wsCalls, events,
                          Connection, ConnectionId>> ]_vars

\* The only attempt ended in the url branch; a later Send() found no transport.
C17_Witness ==
    /\ connects = 1
    /\ outcome = "redirect"
    /\ ops = 1
    /\ Len(httpRequests) = 1
    /\ createCalls = <<>>
    /\ events = <<>>

-----------------------------------------------------------------------------
(* C18 *)

\* C18: a StartWebSocket() whose CreateWebSocket returns no socket adds no
\* handler, calls no Connect(), leaves no handle and issues no further request
\* or CreateWebSocket call; while that attempt is the only one made,
\* IsConnected() is false and Send()/Close() have reached no socket.
C18_FailedConstructionIsTerminal ==
    /\ [](connects = 1 /\ outcome = "start" /\ sockets = <<>> =>
            /\ Connection = 0
            /\ ~IsConnected
            /\ wsCalls = <<>>
            /\ events = <<>>
            /\ Len(createCalls) = 1
            /\ Len(httpRequests) = 1)
    /\ [][ createCalls' # createCalls /\ Len(sockets') = Len(sockets) =>
              /\ Connection' = 0
              /\ wsCalls' = wsCalls
              /\ httpRequests' = httpRequests
              /\ Len(createCalls') = Len(createCalls) + 1
              /\ lastLog' = "Cannot start websocket." ]_vars

\* Construction failed in the only attempt; a later Close() found no transport.
C18_Witness ==
    /\ connects = 1
    /\ outcome = "start"
    /\ sockets = <<>>
    /\ Len(createCalls) = 1
    /\ ops = 1
    /\ lastLog = "Cannot close non connected websocket."
    /\ wsCalls = <<>>

-----------------------------------------------------------------------------
(* C19 *)

\* C19: ConnectionId is empty at first and changes only in a delegate call
\* whose response passes every check; every abort path leaves it as it was.
C19_IdOnlyFromValidatedResponse ==
    /\ ConnectionId = ""
    /\ [][ /\ ConnectionId' # ConnectionId =>
                Handling /\ Handled # NoResponse /\ PassesValidation(Handled)
           /\ Handling /\ FirstFailed(Handled) # "start" => ConnectionId' = ConnectionId ]_vars

\* The identifier is stored although the socket could not be constructed.
C19_Witness ==
    /\ Returned
    /\ PassesValidation(Given)
    /\ ConnectionId # ""
    /\ Len(createCalls) = 1
    /\ Connection = 0

-----------------------------------------------------------------------------
(* C20 *)

\* C20: a completion without a response object is handled as a local
\* failure: the process does not stop.
C20_AsStated == outcome \notin CrashOutcomes

====
